---- MODULE Spec2Model ----
(***************************************************************************)
(* QuickCut: the timeline store (renderer/src/store/useStore.ts) with its  *)
(* undo/redo history, and the FFmpeg job adapter (electron/ffmpeg.ts).     *)
(* Times are seconds; the model uses small integers for them.              *)
(* useStore.ts holds two definitions of the store; the model follows the   *)
(* first one, whose history entries carry the playhead and whose undo()    *)
(* and redo() return a boolean.  The second differs from it in those two   *)
(* points only, as far as the operations modelled here go.                 *)
(***************************************************************************)
EXTENDS Integers, Sequences, FiniteSets, TLC

\* ---------------------------------------------------------------- bounds
MaxTime == 2
MaxClips == 2
MaxHist == 2
MaxCalls == 2
MaxEdits == 4
MaxExports == 1
MaxPlanClips == 3
MaxCancels == 1

\* the retained-history cap of pushHistory
HistoryCap == 50

\* ---------------------------------------------------------------- values
Null == <<>>

\* videoFile: null (no video opened)
NoFile == [path |-> "", duration |-> 0, width |-> 0, height |-> 0]

Range(s) == {s[i] : i \in 1..Len(s)}

\* VideoFile descriptors handed to the store by the open-file dialog
Files ==
  { [path |-> "a.mp4", duration |-> MaxTime, width |-> 2, height |-> 2],
    [path |-> "b.mp4", duration |-> 1, width |-> 1, height |-> 1] }

initialCrop == [x |-> 0, y |-> 0, width |-> 0, height |-> 0, enabled |-> FALSE]

initialExportSettings ==
  [preset |-> "youtube-1080p", format |-> "mp4", codec |-> "h264",
   resolution |-> "source", fps |-> "source", bitrate |-> "auto",
   crf |-> 23, speed |-> "medium"]

\* { ...base, ...updates } : the fields of updates replace those of base
Merge(base, updates) ==
  [k \in DOMAIN base |-> IF k \in DOMAIN updates THEN updates[k] ELSE base[k]]

\* ---------------------------------------------------------------- state
VARIABLES
  videoFile,        \* the opened VideoFile, NoFile for null
  clips,            \* TimelineClip[] of the store
  crop,             \* CropSettings
  exportSettings,   \* ExportSettings
  playheadTime,     \* playhead position on the timeline
  history,          \* HistoryState[]
  historyIndex,     \* cursor into history, -1 when empty (0-based as in the code)
  lastOp,           \* observer: the last store operation and its outcome
  mon,              \* observer: the edit / undo / redo run since the history was empty
  currentProcess,   \* adapter: the ChildProcess of the active job (the number of
                    \* the submission that spawned it), 0 for null
  currentProgress,  \* adapter: progress 0..100
  totalDuration,    \* adapter: expected duration of the active job
  calls,            \* adapter: every submission so far, with the position of its
                    \* async function and the state of its engine process
  lastJob,          \* observer: the last adapter call and what it returned
  processingStatus, \* store: 'idle' | 'processing' | 'completed' | 'error' | 'cancelled'
  progress,         \* store: the progress shown to the user
  errorMessage,     \* store: the error shown to the user, "" for null
  progressIntervalRef, \* ExportButton: progressIntervalRef.current, 0 for null; an
                    \* interval is named by the submission its handleExport made
  intervals,        \* the polling intervals set and not cleared
  pending,          \* the submissions whose handleExport awaits the reply
  cancelPending     \* ProgressBar: the cancelJob() calls whose reply is awaited

storeVars == <<videoFile, clips, crop, exportSettings, playheadTime, history, historyIndex>>
ghostVars == <<lastOp, mon>>
jobVars == <<currentProcess, currentProgress, totalDuration, calls, lastJob>>
uiVars == <<processingStatus, progress, errorMessage, progressIntervalRef, intervals, pending,
            cancelPending>>
vars == <<videoFile, clips, crop, exportSettings, playheadTime, history, historyIndex,
          lastOp, mon, currentProcess, currentProgress, totalDuration, calls, lastJob,
          processingStatus, progress, errorMessage, progressIntervalRef, intervals,
          pending, cancelPending>>

\* ---------------------------------------------------------------- clip helpers
ClipDuration(c) == c.outPoint - c.inPoint

ClipEnd(c) == c.startTime + ClipDuration(c)

Max2(a, b) == IF a >= b THEN a ELSE b

\* clips.reduce((max, clip) => Math.max(max, clipEnd), 0)
RECURSIVE TimelineEndFrom(_, _, _)
TimelineEndFrom(cs, i, max) ==
  IF i > Len(cs) THEN max
  ELSE TimelineEndFrom(cs, i + 1, Max2(max, ClipEnd(cs[i])))

TimelineEnd(cs) == TimelineEndFrom(cs, 1, 0)

ClipIds(cs) == {cs[i].id : i \in 1..Len(cs)}

HistoryIds(h) == UNION {ClipIds(h[i].clips) : i \in 1..Len(h)}

\* generateClipId: an identifier no live clip or snapshot carries.  Identifiers
\* are opaque, so the least unused number stands for any fresh one.
generateClipId(cs, h) ==
  LET used == ClipIds(cs) \cup HistoryIds(h)
  IN  CHOOSE n \in 1..(Cardinality(used) + 1) :
        n \notin used /\ \A m \in 1..(n - 1) : m \in used

\* clips.find(c => c.id === id): index of the first match, 0 when absent
FindIndex(cs, id) ==
  IF \E i \in 1..Len(cs) : cs[i].id = id
  THEN CHOOSE i \in 1..Len(cs) : cs[i].id = id /\ \A j \in 1..(i - 1) : cs[j].id # id
  ELSE 0

\* Array.prototype.filter
RECURSIVE FilterOutId(_, _)
FilterOutId(cs, id) ==
  IF cs = <<>> THEN <<>>
  ELSE IF Head(cs).id # id THEN <<Head(cs)>> \o FilterOutId(Tail(cs), id)
       ELSE FilterOutId(Tail(cs), id)

\* Array.prototype.sort((a, b) => a.startTime - b.startTime): a stable sort
RECURSIVE InsertByStart(_, _)
InsertByStart(sorted, c) ==
  IF sorted = <<>> THEN <<c>>
  ELSE IF Head(sorted).startTime <= c.startTime
       THEN <<Head(sorted)>> \o InsertByStart(Tail(sorted), c)
       ELSE <<c>> \o sorted

RECURSIVE SortByStartFrom(_, _, _)
SortByStartFrom(cs, i, acc) ==
  IF i > Len(cs) THEN acc
  ELSE SortByStartFrom(cs, i + 1, InsertByStart(acc, cs[i]))

SortByStartTime(cs) == SortByStartFrom(cs, 1, <<>>)

\* ---------------------------------------------------------------- history
\* the HistoryState built by pushHistory (timestamp and version carry no logic)
Snapshot(cs, cr, es, ph) ==
  [clips |-> cs, crop |-> cr, exportSettings |-> es, playheadTime |-> ph]

\* faulty variant: the cap is not enforced
PushedHistory_noCap(h, idx, snap) == Append(SubSeq(h, 1, idx + 1), snap)

\* history.slice(0, historyIndex + 1); push; shift when longer than the cap
PushedHistory(h, idx, snap) ==
  LET newHistory == Append(SubSeq(h, 1, idx + 1), snap)
  IN  IF Len(newHistory) > HistoryCap THEN Tail(newHistory) ELSE newHistory

canUndo == historyIndex > 0

canRedo == historyIndex < Len(history) - 1

\* ---------------------------------------------------------------- observers
\* What the last store operation was, on which clip, whether it took effect
\* (for undo / redo: the value returned), whether it pushed a history entry,
\* and for a pushing edit the clips and crop immediately before it.
Record(name, id, ok, pushed) ==
  [name |-> name, id |-> id, ok |-> ok, pushed |-> pushed,
   before |-> IF pushed THEN [clips |-> clips, crop |-> crop] ELSE Null,
   afterEdit |-> FALSE,
   hadRedo |-> pushed /\ canRedo,
   dropped |-> pushed /\ historyIndex + 2 > HistoryCap]

\* an undo / redo call remembers whether it directly follows a pushing edit,
\* and the state that edit started from
RecordAfter(name, ok) ==
  [name |-> name, id |-> 0, ok |-> ok, pushed |-> FALSE,
   before |-> IF lastOp.pushed THEN lastOp.before ELSE Null,
   afterEdit |-> lastOp.pushed /\ lastOp.name # "pushHistory",
   hadRedo |-> FALSE, dropped |-> FALSE]

MonStart == [phase |-> "edits", n |-> 0, u |-> 0, r |-> 0, base |-> Null, post |-> Null]

MonNone == [phase |-> "none", n |-> 0, u |-> 0, r |-> 0, base |-> Null, post |-> Null]

\* a history-pushing edit that turns clips into newClips (runs of up to MaxHist
\* edits are followed)
MonEdit(newClips) ==
  IF mon.phase = "edits" /\ mon.n < MaxHist
  THEN [mon EXCEPT !.n = @ + 1,
                   !.base = IF mon.n = 0 THEN clips ELSE @,
                   !.post = newClips]
  ELSE MonNone

MonUndo ==
  IF mon.phase \in {"edits", "undos"} /\ mon.n >= 1 /\ mon.u < mon.n
  THEN [mon EXCEPT !.phase = "undos", !.u = @ + 1]
  ELSE MonNone

MonRedo ==
  IF (mon.phase = "undos" /\ mon.u = mon.n) \/ (mon.phase = "redos" /\ mon.r < mon.n)
  THEN [mon EXCEPT !.phase = "redos", !.r = @ + 1]
  ELSE MonNone

\* ---------------------------------------------------------------- store operations
\* faulty variant: the entry is appended after the whole log and the cursor steps by one,
\* so entries beyond the cursor survive a push
DoPushHistory_keepRedo ==
  /\ history' = Append(history, Snapshot(clips, crop, exportSettings, playheadTime))
  /\ historyIndex' = historyIndex + 1

\* the state change of a call to pushHistory()
DoPushHistory ==
  /\ history' = PushedHistory(history, historyIndex,
                              Snapshot(clips, crop, exportSettings, playheadTime))
  /\ historyIndex' = Len(history') - 1

pushHistory ==
  /\ DoPushHistory
  /\ lastOp' = Record("pushHistory", 0, TRUE, TRUE)
  /\ mon' = MonNone
  /\ UNCHANGED <<videoFile, clips, crop, exportSettings, playheadTime>>
  /\ UNCHANGED <<uiVars, jobVars>>

setPlayheadTime(time) ==
  /\ playheadTime' = Max2(0, time)
  /\ lastOp' = Record("setPlayheadTime", 0, TRUE, FALSE)
  /\ UNCHANGED <<videoFile, clips, crop, exportSettings, history, historyIndex, mon>>
  /\ UNCHANGED <<uiVars, jobVars>>

setCrop(updates) ==
  /\ DoPushHistory
  /\ crop' = Merge(crop, updates)
  /\ lastOp' = Record("setCrop", 0, TRUE, TRUE)
  /\ mon' = MonEdit(clips)
  /\ UNCHANGED <<videoFile, clips, exportSettings, playheadTime>>
  /\ UNCHANGED <<uiVars, jobVars>>

\* neither setter calls pushHistory
setExportSettings(settings) ==
  /\ exportSettings' = Merge(exportSettings, settings)
  /\ lastOp' = Record("setExportSettings", 0, TRUE, FALSE)
  /\ UNCHANGED <<videoFile, clips, crop, playheadTime, history, historyIndex, mon>>
  /\ UNCHANGED <<uiVars, jobVars>>

setOutputFormat(format) ==
  /\ exportSettings' = Merge(exportSettings, [format |-> format])
  /\ lastOp' = Record("setOutputFormat", 0, TRUE, FALSE)
  /\ UNCHANGED <<videoFile, clips, crop, playheadTime, history, historyIndex, mon>>
  /\ UNCHANGED <<uiVars, jobVars>>

NewClip(id, file, start) ==
  [id |-> id, sourceFile |-> file, inPoint |-> 0, outPoint |-> file.duration,
   startTime |-> start]

setVideoFile(file) ==
  /\ videoFile' = file
  /\ clips' = IF file = NoFile THEN <<>>
              ELSE <<NewClip(generateClipId(clips, history), file, 0)>>
  /\ playheadTime' = 0
  /\ crop' = IF file = NoFile THEN initialCrop
             ELSE [x |-> 0, y |-> 0, width |-> file.width, height |-> file.height,
                   enabled |-> FALSE]
  /\ processingStatus' = "idle"
  /\ progress' = 0
  /\ errorMessage' = ""
  /\ lastOp' = Record("setVideoFile", 0, TRUE, FALSE)
  /\ mon' = MonNone
  /\ UNCHANGED <<exportSettings, history, historyIndex>>
  /\ UNCHANGED <<progressIntervalRef, intervals, pending, cancelPending, jobVars>>

addClip(clip) ==
  /\ DoPushHistory
  /\ clips' = Append(clips, clip)
  /\ lastOp' = Record("addClip", clip.id, TRUE, TRUE)
  /\ mon' = MonEdit(clips')
  /\ UNCHANGED <<videoFile, crop, exportSettings, playheadTime>>
  /\ UNCHANGED <<uiVars, jobVars>>

addVideoToTimeline(file) ==
  LET newClip == NewClip(generateClipId(clips, history), file, TimelineEnd(clips))
  IN  /\ DoPushHistory
      /\ clips' = Append(clips, newClip)
      /\ lastOp' = Record("addVideoToTimeline", newClip.id, TRUE, TRUE)
      /\ mon' = MonEdit(clips')
      /\ UNCHANGED <<videoFile, crop, exportSettings, playheadTime>>
      /\ UNCHANGED <<uiVars, jobVars>>

\* clips.map(c => c.id === id ? { ...c, ...updates } : c)
UpdatedClips(cs, id, updates) ==
  [i \in 1..Len(cs) |-> IF cs[i].id = id THEN Merge(cs[i], updates) ELSE cs[i]]

updateClip(id, updates) ==
  /\ DoPushHistory
  /\ clips' = UpdatedClips(clips, id, updates)
  /\ lastOp' = Record("updateClip", id, TRUE, TRUE)
  /\ mon' = MonEdit(clips')
  /\ UNCHANGED <<videoFile, crop, exportSettings, playheadTime>>
  /\ UNCHANGED <<uiVars, jobVars>>

removeClip(id) ==
  /\ DoPushHistory
  /\ clips' = FilterOutId(clips, id)
  /\ lastOp' = Record("removeClip", id, TRUE, TRUE)
  /\ mon' = MonEdit(clips')
  /\ UNCHANGED <<videoFile, crop, exportSettings, playheadTime>>
  /\ UNCHANGED <<uiVars, jobVars>>

\* faulty variant: the split point is taken on the timeline, not mapped into the source
SplitClips_noStartOffset(cs, k, ph, newId) ==
  LET clip == cs[k]
      splitPointInSource == clip.inPoint + ph
      clip1 == [clip EXCEPT !.outPoint = splitPointInSource]
      clip2 == [id |-> newId, sourceFile |-> clip.sourceFile,
                inPoint |-> splitPointInSource, outPoint |-> clip.outPoint,
                startTime |-> ph]
      mapped == [i \in 1..Len(cs) |-> IF cs[i].id = clip.id THEN clip1 ELSE cs[i]]
  IN  SortByStartTime(Append(mapped, clip2))

\* the clips after a split of cs[k] at playhead ph, the new half getting newId
SplitClips(cs, k, ph, newId) ==
  LET clip == cs[k]
      splitPointInSource == clip.inPoint + (ph - clip.startTime)
      clip1 == [clip EXCEPT !.outPoint = splitPointInSource]
      clip2 == [id |-> newId, sourceFile |-> clip.sourceFile,
                inPoint |-> splitPointInSource, outPoint |-> clip.outPoint,
                startTime |-> ph]
      mapped == [i \in 1..Len(cs) |-> IF cs[i].id = clip.id THEN clip1 ELSE cs[i]]
  IN  SortByStartTime(Append(mapped, clip2))

\* faulty variant: a playhead on either edge of the clip still splits it
SplitApplies_edgesIncluded(cs, k, ph) ==
  /\ k # 0
  /\ ~(ph < cs[k].startTime \/ ph > ClipEnd(cs[k]))

\* the early returns of splitClipAtPlayhead: absent clip, playhead not strictly inside
SplitApplies(cs, k, ph) ==
  /\ k # 0
  /\ ~(ph <= cs[k].startTime \/ ph >= ClipEnd(cs[k]))

splitClipAtPlayhead(clipId) ==
  LET k == FindIndex(clips, clipId)
  IN  IF SplitApplies(clips, k, playheadTime)
      THEN /\ DoPushHistory
           /\ clips' = SplitClips(clips, k, playheadTime, generateClipId(clips, history))
           /\ lastOp' = Record("splitClipAtPlayhead", clipId, TRUE, TRUE)
           /\ mon' = MonEdit(clips')
           /\ UNCHANGED <<videoFile, crop, exportSettings, playheadTime>>
           /\ UNCHANGED <<uiVars, jobVars>>
      ELSE /\ lastOp' = Record("splitClipAtPlayhead", clipId, FALSE, FALSE)
           /\ UNCHANGED <<storeVars, mon, uiVars, jobVars>>

\* faulty variant: the clips that started before the deleted clip are the ones shifted
RippledClips_shiftEarlier(cs, k) ==
  LET clip == cs[k]
      clipDuration == clip.outPoint - clip.inPoint
      rest == FilterOutId(cs, clip.id)
  IN  [i \in 1..Len(rest) |->
         IF rest[i].startTime < clip.startTime
         THEN [rest[i] EXCEPT !.startTime = @ - clipDuration]
         ELSE rest[i]]

\* filter out the clip, then shift every clip that started after it
RippledClips(cs, k) ==
  LET clip == cs[k]
      clipDuration == clip.outPoint - clip.inPoint
      rest == FilterOutId(cs, clip.id)
  IN  [i \in 1..Len(rest) |->
         IF rest[i].startTime > clip.startTime
         THEN [rest[i] EXCEPT !.startTime = @ - clipDuration]
         ELSE rest[i]]

rippleDelete(clipId) ==
  LET clipIndex == FindIndex(clips, clipId)
  IN  IF clipIndex # 0
      THEN /\ DoPushHistory
           /\ clips' = RippledClips(clips, clipIndex)
           /\ lastOp' = Record("rippleDelete", clipId, TRUE, TRUE)
           /\ mon' = MonEdit(clips')
           /\ UNCHANGED <<videoFile, crop, exportSettings, playheadTime>>
           /\ UNCHANGED <<uiVars, jobVars>>
      ELSE /\ lastOp' = Record("rippleDelete", clipId, FALSE, FALSE)
           /\ UNCHANGED <<storeVars, mon, uiVars, jobVars>>

\* the entry undo() restores: history[historyIndex - 1] (0-based)
UndoTarget(h, idx) == h[idx]

undo ==
  IF historyIndex <= 0
  THEN /\ lastOp' = RecordAfter("undo", FALSE)
       /\ mon' = MonUndo
       /\ UNCHANGED <<storeVars, uiVars, jobVars>>
  ELSE LET prevState == UndoTarget(history, historyIndex)
       IN  /\ clips' = prevState.clips
           /\ crop' = prevState.crop
           /\ exportSettings' = prevState.exportSettings
           /\ playheadTime' = prevState.playheadTime
           /\ historyIndex' = historyIndex - 1
           /\ lastOp' = RecordAfter("undo", TRUE)
           /\ mon' = MonUndo
           /\ UNCHANGED <<videoFile, history, uiVars, jobVars>>

\* the entry redo() restores: history[historyIndex + 1] (0-based)
RedoTarget(h, idx) == h[idx + 2]

redo ==
  IF historyIndex >= Len(history) - 1
  THEN /\ lastOp' = RecordAfter("redo", FALSE)
       /\ mon' = MonRedo
       /\ UNCHANGED <<storeVars, uiVars, jobVars>>
  ELSE LET nextState == RedoTarget(history, historyIndex)
       IN  /\ clips' = nextState.clips
           /\ crop' = nextState.crop
           /\ exportSettings' = nextState.exportSettings
           /\ playheadTime' = nextState.playheadTime
           /\ historyIndex' = historyIndex + 1
           /\ lastOp' = RecordAfter("redo", TRUE)
           /\ mon' = MonRedo
           /\ UNCHANGED <<videoFile, history, uiVars, jobVars>>

clearHistory ==
  /\ history' = <<>>
  /\ historyIndex' = -1
  /\ lastOp' = Record("clearHistory", 0, TRUE, FALSE)
  /\ mon' = MonStart
  /\ UNCHANGED <<videoFile, clips, crop, exportSettings, playheadTime, uiVars, jobVars>>

reset ==
  /\ videoFile' = NoFile
  /\ clips' = <<>>
  /\ playheadTime' = 0
  /\ crop' = initialCrop
  /\ exportSettings' = initialExportSettings
  /\ history' = <<>>
  /\ historyIndex' = -1
  /\ processingStatus' = "idle"
  /\ progress' = 0
  /\ errorMessage' = ""
  /\ lastOp' = Record("reset", 0, TRUE, FALSE)
  /\ mon' = MonStart
  /\ UNCHANGED <<progressIntervalRef, intervals, pending, cancelPending, jobVars>>

\* data.x || default for every field of the project document
loadProjectData(data) ==
  /\ videoFile' = data.videoFile
  /\ clips' = data.clips
  /\ crop' = data.crop
  /\ exportSettings' = data.exportSettings
  /\ playheadTime' = data.playheadTime
  /\ history' = <<>>
  /\ historyIndex' = -1
  /\ lastOp' = Record("loadProjectData", 0, TRUE, FALSE)
  /\ mon' = MonStart
  /\ UNCHANGED <<uiVars, jobVars>>

\* ---------------------------------------------------------------- engine adapter
\* A submission is one call of trimVideo, cropVideo, convertVideo, exportVideo or
\* exportTimeline.  Its pc is
\*   "busy"      thrown 'A job is already running'
\*   "empty"     thrown 'No clips to export'
\*   "probing"   suspended at the await of getVideoDuration / getVideoMetadata
\*   "probeFail" the probe rejected, and so did the call
\*   "running"   engine process spawned and running, promise pending
\*   "killed"    engine process sent SIGTERM, not yet closed, promise pending
\*   "spawnErr"  spawn failed, the 'error' event not yet delivered
\*   "resolved" / "rejected"  the process closed (or errored), promise settled
Alive(c) == c.pc \in {"running", "killed"}

AliveCalls == {i \in 1..Len(calls) : Alive(calls[i])}

\* faulty variant: the adapter never sees a running job
isJobRunning_never == FALSE

isJobRunning == currentProcess # 0

\* Math.round(x / y * 100) for x >= 0, y > 0
RoundPercent(x, y) == (200 * x + y) \div (2 * y)

Min2(a, b) == IF a <= b THEN a ELSE b

\* parseProgress for a stderr line that carries time = t seconds
ParsedProgress(t) ==
  IF totalDuration > 0 THEN Min2(100, RoundPercent(t, totalDuration))
  ELSE currentProgress

\* segments.reduce((sum, clip) => sum + (clip.outPoint - clip.inPoint), 0)
RECURSIVE SumDurationsFrom(_, _, _)
SumDurationsFrom(segs, i, sum) ==
  IF i > Len(segs) THEN sum
  ELSE SumDurationsFrom(segs, i + 1, sum + (segs[i].outPoint - segs[i].inPoint))

SumDurations(segs) == SumDurationsFrom(segs, 1, 0)

\* args: the argument vector the engine is (to be) spawned with; the vectors of
\* the single-file functions are not modelled and stay empty
NewCall(kind, pc, args) == [kind |-> kind, pc |-> pc, args |-> args]

\* the set-up before the spawn and currentProcess = proc after it
SpawnFor(c, duration) ==
  /\ totalDuration' = duration
  /\ currentProgress' = 0
  /\ currentProcess' = c

\* a function that checks, sets up and spawns without suspending
SubmitSync(kind, duration, spawned, args) ==
  LET c == Len(calls) + 1
  IN  IF isJobRunning
      THEN /\ calls' = Append(calls, NewCall(kind, "busy", <<>>))
           /\ lastJob' = [name |-> kind, call |-> c, result |-> "busy"]
           /\ UNCHANGED <<currentProcess, currentProgress, totalDuration>>
      ELSE /\ SpawnFor(c, duration)
           /\ calls' = Append(calls, NewCall(kind, spawned, args))
           /\ lastJob' = [name |-> kind, call |-> c, result |-> "spawned"]

\* a function that checks and then awaits the probe of its input
SubmitAsync(kind) ==
  LET c == Len(calls) + 1
  IN  IF isJobRunning
      THEN /\ calls' = Append(calls, NewCall(kind, "busy", <<>>))
           /\ lastJob' = [name |-> kind, call |-> c, result |-> "busy"]
           /\ UNCHANGED <<currentProcess, currentProgress, totalDuration>>
      ELSE /\ calls' = Append(calls, NewCall(kind, "probing", <<>>))
           /\ lastJob' = [name |-> kind, call |-> c, result |-> "awaiting"]
           /\ UNCHANGED <<currentProcess, currentProgress, totalDuration>>

trimVideo(startTime, endTime, spawned) ==
  /\ SubmitSync("trimVideo", endTime - startTime, spawned, <<>>)
  /\ UNCHANGED <<storeVars, ghostVars, uiVars>>

cropVideo ==
  /\ SubmitAsync("cropVideo")
  /\ UNCHANGED <<storeVars, ghostVars, uiVars>>

convertVideo ==
  /\ SubmitAsync("convertVideo")
  /\ UNCHANGED <<storeVars, ghostVars, uiVars>>

exportVideo ==
  /\ SubmitAsync("exportVideo")
  /\ UNCHANGED <<storeVars, ghostVars, uiVars>>

\* the continuation after the await: the probe answered with a duration
probeResolved(c, duration, spawned) ==
  /\ calls[c].pc = "probing"
  /\ SpawnFor(c, duration)
  /\ calls' = [calls EXCEPT ![c].pc = spawned]
  /\ lastJob' = [name |-> "probeResolved", call |-> c, result |-> "spawned"]
  /\ UNCHANGED <<storeVars, ghostVars, uiVars>>

\* the probe rejected: the call rejects and spawns nothing
probeRejected(c) ==
  /\ calls[c].pc = "probing"
  /\ calls' = [calls EXCEPT ![c].pc = "probeFail"]
  /\ lastJob' = [name |-> "probeRejected", call |-> c, result |-> "rejected"]
  /\ UNCHANGED <<currentProcess, currentProgress, totalDuration>>
  /\ UNCHANGED <<storeVars, ghostVars, uiVars>>

\* ---- the argument vector built by exportTimeline
\* [...].join('')
RECURSIVE JoinFrom(_, _)
JoinFrom(strs, i) == IF i > Len(strs) THEN "" ELSE strs[i] \o JoinFrom(strs, i + 1)

Join(strs) == JoinFrom(strs, 1)

\* args.push('-ss', inPoint, '-t', outPoint - inPoint, '-i', sourcePath) per clip
RECURSIVE InputArgsFrom(_, _)
InputArgsFrom(segs, i) ==
  IF i > Len(segs) THEN <<>>
  ELSE <<"-ss", ToString(segs[i].inPoint),
         "-t", ToString(segs[i].outPoint - segs[i].inPoint),
         "-i", segs[i].sourcePath>> \o InputArgsFrom(segs, i + 1)

InputArgs(segs) == InputArgsFrom(segs, 1)

\* clips.map((_, i) => `[${i}:v][${i}:a]`).join('')
StreamLabels(segs) ==
  Join([i \in 1..Len(segs) |->
          "[" \o ToString(i - 1) \o ":v][" \o ToString(i - 1) \o ":a]"])

FilterComplex(segs, crop_) ==
  IF crop_.defined
  THEN StreamLabels(segs) \o "concat=n=" \o ToString(Len(segs))
         \o ":v=1:a=1[concatv][outa];[concatv]crop=" \o ToString(crop_.width) \o ":"
         \o ToString(crop_.height) \o ":" \o ToString(crop_.x) \o ":"
         \o ToString(crop_.y) \o "[outv]"
  ELSE StreamLabels(segs) \o "concat=n=" \o ToString(Len(segs))
         \o ":v=1:a=1[outv][outa]"

\* args.pop()
Pop(args) == SubSeq(args, 1, Len(args) - 1)

\* crf || 23
CrfValue(crf) == IF crf = 0 THEN 23 ELSE crf

VideoCodec(codec) ==
  IF codec = "h265" THEN "libx265"
  ELSE IF codec = "vp9" THEN "libvpx-vp9"
  ELSE IF codec = "prores" THEN "prores_ks"
  ELSE "libx264"

\* the switch on the output format, applied to the vector built so far
EncodingArgs(args, p) ==
  IF p.format = "webm"
  THEN args \o <<"-c:v", "libvpx-vp9", "-crf", ToString(CrfValue(p.crf)),
                 "-b:v", "0", "-c:a", "libopus">>
  ELSE IF p.format = "gif"
  THEN Pop(Pop(args)) \o <<"-c:v", "gif", "-loop", "0">>
  ELSE args \o <<"-c:v", VideoCodec(p.codec)>>
         \o (IF VideoCodec(p.codec) # "prores_ks"
             THEN <<"-preset", p.speed, "-crf", ToString(CrfValue(p.crf))>>
             ELSE <<>>)
         \o <<"-c:a", "aac">>
         \o (IF p.format \in {"mp4", "mov"} THEN <<"-movflags", "+faststart">> ELSE <<>>)

\* resolution, frame rate and bitrate; a numeric fps or bitrate is held in its
\* decimal notation ("0" being the falsy number)
TailArgs(p) ==
  (IF p.resolution # "source"
   THEN <<"-s", ToString(p.resolution.width) \o "x" \o ToString(p.resolution.height)>>
   ELSE <<>>)
  \o (IF p.fps # "0" /\ p.fps # "source" THEN <<"-r", p.fps>> ELSE <<>>)
  \o (IF p.bitrate # "0" /\ p.bitrate # "auto" THEN <<"-b:v", p.bitrate \o "k">> ELSE <<>>)
  \o <<p.outputPath>>

ExportArgs(p) ==
  EncodingArgs(<<"-y">> \o InputArgs(p.clips)
                 \o <<"-filter_complex", FilterComplex(p.clips, p.crop),
                      "-map", "[outv]", "-map", "[outa]">>, p)
    \o TailArgs(p)

\* faulty variant: the empty clip list is not rejected
exportTimelineCall_noEmptyCheck(params, spawned) ==
  SubmitSync("exportTimeline", SumDurations(params.clips), spawned, ExportArgs(params))

\* the adapter's part of a call of exportTimeline(params)
exportTimelineCall(params, spawned) ==
  LET c == Len(calls) + 1
  IN  IF ~isJobRunning /\ Len(params.clips) = 0
      THEN /\ calls' = Append(calls, NewCall("exportTimeline", "empty", <<>>))
           /\ lastJob' = [name |-> "exportTimeline", call |-> c, result |-> "empty"]
           /\ UNCHANGED <<currentProcess, currentProgress, totalDuration>>
      ELSE SubmitSync("exportTimeline", SumDurations(params.clips), spawned,
                      ExportArgs(params))

exportTimeline(params, spawned) ==
  /\ exportTimelineCall(params, spawned)
  /\ UNCHANGED <<storeVars, ghostVars, uiVars>>

\* proc.stderr.on('data'): a progress line of a process that has not closed
stderrData(c, t) ==
  /\ Alive(calls[c])
  /\ currentProgress' = ParsedProgress(t)
  /\ lastJob' = [name |-> "stderr", call |-> c, result |-> "none"]
  /\ UNCHANGED <<currentProcess, totalDuration, calls>>
  /\ UNCHANGED <<storeVars, ghostVars, uiVars>>

\* faulty variant: only a clean exit clears the job-in-progress flag
procClose_flagOnSuccessOnly(c, code) ==
  /\ Alive(calls[c])
  /\ currentProcess' = IF code = 0 THEN 0 ELSE currentProcess
  /\ currentProgress' = IF code = 0 THEN 100 ELSE currentProgress
  /\ calls' = [calls EXCEPT ![c].pc = IF code = 0 THEN "resolved" ELSE "rejected"]
  /\ lastJob' = [name |-> "close", call |-> c,
                 result |-> IF code = 0 THEN "resolved" ELSE "rejected"]
  /\ UNCHANGED totalDuration
  /\ UNCHANGED <<storeVars, ghostVars, uiVars>>

\* proc.on('close'): the process has exited with this code (1 stands for any
\* nonzero code or a signal)
procClose(c, code) ==
  /\ Alive(calls[c])
  /\ currentProcess' = 0
  /\ currentProgress' = IF code = 0 THEN 100 ELSE currentProgress
  /\ calls' = [calls EXCEPT ![c].pc = IF code = 0 THEN "resolved" ELSE "rejected"]
  /\ lastJob' = [name |-> "close", call |-> c,
                 result |-> IF code = 0 THEN "resolved" ELSE "rejected"]
  /\ UNCHANGED totalDuration
  /\ UNCHANGED <<storeVars, ghostVars, uiVars>>

\* proc.on('error'): the spawn failed
procError(c) ==
  /\ calls[c].pc = "spawnErr"
  /\ currentProcess' = 0
  /\ calls' = [calls EXCEPT ![c].pc = "rejected"]
  /\ lastJob' = [name |-> "error", call |-> c, result |-> "rejected"]
  /\ UNCHANGED <<currentProgress, totalDuration>>
  /\ UNCHANGED <<storeVars, ghostVars, uiVars>>

\* the adapter's part of a call of cancelCurrentJob()
cancelCurrentJobCall ==
  IF currentProcess # 0
  THEN /\ calls' = [calls EXCEPT ![currentProcess].pc =
                      IF @ = "running" THEN "killed" ELSE @]
       /\ currentProcess' = 0
       /\ currentProgress' = 0
       /\ lastJob' = [name |-> "cancel", call |-> currentProcess, result |-> "true"]
       /\ UNCHANGED totalDuration
  ELSE /\ lastJob' = [name |-> "cancel", call |-> 0, result |-> "false"]
       /\ UNCHANGED <<currentProcess, currentProgress, totalDuration, calls>>

cancelCurrentJob ==
  /\ cancelCurrentJobCall
  /\ UNCHANGED <<storeVars, ghostVars, uiVars>>

\* ---------------------------------------------------------------- inputs
\* clips handed to addClip by a caller: a fresh id, the whole of a file, placed
\* at second 1 of the timeline (addClip takes the position from its caller)
AddClipInputs ==
  {NewClip(generateClipId(clips, history), f, 1) : f \in {g \in Files : g.duration = 1}}

\* Partial<TimelineClip> values handed to updateClip: the drag commit of the
\* timeline ({startTime} >= 0) and trims of the out point
UpdateInputs == {[startTime |-> t] : t \in 0..MaxTime} \cup {[outPoint |-> 0]}

\* the crop toggle of the toolbar: setCrop({ enabled: !crop.enabled })
CropInputs == {[enabled |-> ~crop.enabled]}

\* clip ids a caller may hold: those of the store and a stale one
IdInputs == ClipIds(clips) \cup {0}

ProjectDoc(cs) ==
  [videoFile |-> IF cs = <<>> THEN NoFile ELSE cs[1].sourceFile,
   clips |-> cs, crop |-> initialCrop, exportSettings |-> initialExportSettings,
   playheadTime |-> 0]

\* project documents handed to loadProjectData: an empty one, one-clip ones
ProjectInputs == {ProjectDoc(<<>>)} \cup {ProjectDoc(<<NewClip(1, f, 0)>>) : f \in Files}

\* ---------------------------------------------------------------- specification
InitStore ==
  /\ videoFile = NoFile
  /\ clips = <<>>
  /\ crop = initialCrop
  /\ exportSettings = initialExportSettings
  /\ playheadTime = 0
  /\ history = <<>>
  /\ historyIndex = -1
  /\ lastOp = [name |-> "init", id |-> 0, ok |-> TRUE, pushed |-> FALSE,
               before |-> Null, afterEdit |-> FALSE, hadRedo |-> FALSE,
               dropped |-> FALSE]
  /\ mon = MonStart
  /\ processingStatus = "idle"
  /\ progress = 0
  /\ errorMessage = ""

InitUi ==
  /\ progressIntervalRef = 0
  /\ intervals = {}
  /\ pending = {}
  /\ cancelPending = 0

InitJobs ==
  /\ currentProcess = 0
  /\ currentProgress = 0
  /\ totalDuration = 0
  /\ calls = <<>>
  /\ lastJob = [name |-> "init", call |-> 0, result |-> "none"]

Init == InitStore /\ InitUi /\ InitJobs

\* room for one more history entry / one more clip within the model's bounds
HistRoom == historyIndex + 2 <= MaxHist

ClipRoom == Len(clips) < MaxClips

Next ==
  \/ \E t \in (-1)..MaxTime : setPlayheadTime(t)
  \/ \E u \in CropInputs : HistRoom /\ setCrop(u)
  \/ \E c \in AddClipInputs : HistRoom /\ ClipRoom /\ addClip(c)
  \/ \E f \in Files : HistRoom /\ ClipRoom /\ addVideoToTimeline(f)
  \/ \E id \in ClipIds(clips), u \in UpdateInputs : HistRoom /\ updateClip(id, u)
  \/ HistRoom /\ updateClip(0, [startTime |-> 0])
  \/ \E id \in IdInputs : HistRoom /\ removeClip(id)
  \/ \E id \in IdInputs : HistRoom /\ ClipRoom /\ splitClipAtPlayhead(id)
  \/ \E id \in IdInputs : HistRoom /\ rippleDelete(id)
  \/ undo
  \/ redo
  \/ reset
  \/ \E d \in ProjectInputs : loadProjectData(d)

Spec == Init /\ [][Next]_vars

\* the three basic clip operations alone, up to MaxEdits of them
EditRoom == Len(history) < MaxEdits

NextBasic ==
  \/ \E c \in AddClipInputs : EditRoom /\ ClipRoom /\ addClip(c)
  \/ \E id \in ClipIds(clips), u \in UpdateInputs : EditRoom /\ updateClip(id, u)
  \/ \E id \in IdInputs : EditRoom /\ removeClip(id)

SpecBasic == Init /\ [][NextBasic]_vars

\* clip placement: project load, the clip operations that move or shrink clips,
\* and addVideoToTimeline, up to MaxEdits edits
NextPlace ==
  \/ \E d \in ProjectInputs : loadProjectData(d)
  \/ \E c \in AddClipInputs : EditRoom /\ ClipRoom /\ addClip(c)
  \/ \E id \in ClipIds(clips), u \in UpdateInputs : EditRoom /\ updateClip(id, u)
  \/ \E id \in IdInputs : EditRoom /\ rippleDelete(id)
  \/ \E f \in Files : EditRoom /\ ClipRoom /\ addVideoToTimeline(f)

SpecPlace == Init /\ [][NextPlace]_vars

\* the history log up to its cap: pushes, edits, cursor moves and the operations
\* that empty it
NextHist ==
  \/ pushHistory
  \/ updateClip(0, [startTime |-> 0])
  \/ \E id \in IdInputs : removeClip(id)
  \/ undo
  \/ redo
  \/ clearHistory
  \/ reset
  \/ \E d \in ProjectInputs : loadProjectData(d)

SpecHist == Init /\ [][NextHist]_vars

\* crop: crop.enabled ? { x, y, width, height } : undefined
CropParam(cr) ==
  [defined |-> cr.enabled, x |-> cr.x, y |-> cr.y, width |-> cr.width,
   height |-> cr.height]

\* the ExportTimelineParams handleExport passes over IPC
ExportParams(segs, cr, es, outputPath) ==
  [clips |-> segs, outputPath |-> outputPath, format |-> es.format,
   crop |-> CropParam(cr), codec |-> es.codec, resolution |-> es.resolution,
   fps |-> es.fps, bitrate |-> es.bitrate, crf |-> es.crf, speed |-> es.speed]

\* faulty variant: the clips are exported in stored order
ExportClips_storedOrder(cs) ==
  [i \in 1..Len(cs) |->
     [sourcePath |-> cs[i].sourceFile.path, inPoint |-> cs[i].inPoint,
      outPoint |-> cs[i].outPoint]]

\* sortedClips = [...clips].sort(by startTime); exportClips = sortedClips.map(...)
ExportClips(cs) ==
  LET sortedClips == SortByStartTime(cs)
  IN  [i \in 1..Len(sortedClips) |->
         [sourcePath |-> sortedClips[i].sourceFile.path,
          inPoint |-> sortedClips[i].inPoint,
          outPoint |-> sortedClips[i].outPoint]]

\* a submission whose promise has settled, so that the IPC reply is on its way
Settled(c) == c.pc \in {"busy", "empty", "resolved", "rejected"}

\* the Export button is enabled
ExportEnabled == videoFile # NoFile /\ processingStatus # "processing"

\* handleExport up to its await of exportTimeline.  outputPath is what the save
\* dialog returned, "" when it was dismissed.  The IPC call runs exportTimeline
\* in the main process up to the spawn of the engine.
handleExport(outputPath, spawned) ==
  LET c == Len(calls) + 1
  IN  /\ ExportEnabled
      /\ IF outputPath = ""
         THEN /\ lastOp' = Record("handleExport", 0, FALSE, FALSE)
              /\ UNCHANGED <<storeVars, mon, uiVars, jobVars>>
         ELSE /\ processingStatus' = "processing"
              /\ progress' = 0
              /\ errorMessage' = ""
              /\ progressIntervalRef' = c
              /\ intervals' = intervals \cup {c}
              /\ pending' = pending \cup {c}
              /\ exportTimelineCall(ExportParams(ExportClips(clips), crop,
                                                exportSettings, outputPath), spawned)
              /\ lastOp' = Record("handleExport", c, TRUE, FALSE)
              /\ UNCHANGED <<storeVars, mon, cancelPending>>

\* the callback of the polling interval: setProgress(await getProgress())
pollProgress(i) ==
  /\ i \in intervals
  /\ progress' = currentProgress
  /\ UNCHANGED <<processingStatus, errorMessage, progressIntervalRef, intervals, pending,
                 cancelPending>>
  /\ UNCHANGED <<storeVars, ghostVars, jobVars>>

\* handleExport after its await: the reply { success, error } has arrived
exportReply(c) ==
  /\ c \in pending
  /\ Settled(calls[c])
  /\ pending' = pending \ {c}
  /\ intervals' = intervals \ {progressIntervalRef}
  /\ progressIntervalRef' = 0
  /\ IF calls[c].pc = "resolved"
     THEN /\ progress' = 100
          /\ processingStatus' = "completed"
          /\ UNCHANGED errorMessage
     ELSE /\ errorMessage' = calls[c].pc
          /\ processingStatus' = "error"
          /\ UNCHANGED progress
  /\ UNCHANGED <<storeVars, ghostVars, jobVars, cancelPending>>

\* the Cancel button of the progress bar up to its await: cancelJob() runs
\* cancelCurrentJob in the main process
cancelClick ==
  /\ processingStatus = "processing"
  /\ cancelCurrentJobCall
  /\ cancelPending' = cancelPending + 1
  /\ UNCHANGED <<processingStatus, progress, errorMessage, progressIntervalRef, intervals,
                 pending>>
  /\ UNCHANGED <<storeVars, ghostVars>>

\* faulty variant: a cancellation also discards the undo history
cancelReply_clearsHistory ==
  /\ cancelPending > 0
  /\ cancelPending' = cancelPending - 1
  /\ processingStatus' = "cancelled"
  /\ history' = <<>>
  /\ historyIndex' = -1
  /\ UNCHANGED <<progress, errorMessage, progressIntervalRef, intervals, pending>>
  /\ UNCHANGED <<videoFile, clips, crop, exportSettings, playheadTime, ghostVars, jobVars>>

\* the Cancel handler after its await: setProcessingStatus('cancelled')
cancelReply ==
  /\ cancelPending > 0
  /\ cancelPending' = cancelPending - 1
  /\ processingStatus' = "cancelled"
  /\ UNCHANGED <<progress, errorMessage, progressIntervalRef, intervals, pending>>
  /\ UNCHANGED <<storeVars, ghostVars, jobVars>>

\* the dismiss button of a finished job: setProcessingStatus('idle')
handleDismiss ==
  /\ processingStatus \in {"completed", "error", "cancelled"}
  /\ processingStatus' = "idle"
  /\ UNCHANGED <<progress, errorMessage, progressIntervalRef, intervals, pending,
                 cancelPending>>
  /\ UNCHANGED <<storeVars, ghostVars, jobVars>>

\* the adapter under submissions, cancellations and process events
Segment(f) == [sourcePath |-> f.path, inPoint |-> 0, outPoint |-> f.duration]

\* clip lists handed to exportTimeline: none, one segment, two segments
SegmentInputs ==
  {<<>>} \cup {<<Segment(f)>> : f \in Files} \cup {<<Segment(f), Segment(g)>> : f, g \in Files}

SpawnOutcomes == {"running", "spawnErr"}

CallRoom == Len(calls) < MaxCalls

NextJobs ==
  \/ \E e \in 1..MaxTime, o \in SpawnOutcomes : CallRoom /\ trimVideo(0, e, o)
  \/ CallRoom /\ cropVideo
  \/ CallRoom /\ convertVideo
  \/ CallRoom /\ exportVideo
  \/ \E segs \in SegmentInputs, o \in SpawnOutcomes :
       CallRoom /\ exportTimeline(ExportParams(segs, initialCrop, initialExportSettings, "out"), o)
  \/ \E c \in 1..Len(calls), d \in 0..MaxTime, o \in SpawnOutcomes : probeResolved(c, d, o)
  \/ \E c \in 1..Len(calls) : probeRejected(c)
  \/ \E c \in 1..Len(calls), t \in 0..MaxTime : stderrData(c, t)
  \/ \E c \in 1..Len(calls), code \in {0, 1} : procClose(c, code)
  \/ \E c \in 1..Len(calls) : procError(c)
  \/ cancelCurrentJob

SpecJobs == Init /\ [][NextJobs]_vars

\* the engine process of a call emits 'close', or 'error' when its spawn failed
JobEnds(c) ==
  /\ c \in 1..Len(calls)
  /\ \/ \E code \in {0, 1} : procClose(c, code)
     \/ procError(c)

\* the adapter when every engine process eventually emits 'close' or 'error':
\* a child process that was spawned exits, of itself or on SIGTERM, and Node
\* delivers the event to the handler registered at the spawn
SpecJobsLive == SpecJobs /\ \A c \in 1..MaxCalls : WF_vars(JobEnds(c))

\* export settings chosen by the user or read from a project: container format
\* and an explicit bitrate in kbps
SettingsInputs ==
  {[format |-> f] : f \in {"mp4", "webm", "gif"}}
    \cup {[bitrate |-> b] : b \in {"auto", "5000"}}

ExportRoom == Len(calls) < MaxExports

\* the editor up to the export: a project is opened, its timeline emptied, crop
\* and settings are chosen, exports are requested and their processes end
NextExport ==
  \/ \E d \in ProjectInputs : loadProjectData(d)
  \/ \E u \in CropInputs : HistRoom /\ setCrop(u)
  \/ \E id \in ClipIds(clips) : HistRoom /\ rippleDelete(id)
  \/ \E u \in SettingsInputs : setExportSettings(u)
  \/ \E path \in {"", "out"}, o \in SpawnOutcomes : ExportRoom /\ handleExport(path, o)
  \/ \E c \in pending : exportReply(c)
  \/ \E c \in 1..Len(calls), code \in {0, 1} : procClose(c, code)
  \/ \E c \in 1..Len(calls) : procError(c)

SpecExport == Init /\ [][NextExport]_vars

\* the render of an opened project: the crop is toggled, exports are requested,
\* cancelled and dismissed, the progress is polled, and the processes end
CancelRoom == cancelPending < MaxCancels

NextRender ==
  \/ \E d \in ProjectInputs : loadProjectData(d)
  \/ \E u \in CropInputs : HistRoom /\ setCrop(u)
  \/ \E path \in {"", "out"}, o \in SpawnOutcomes : CallRoom /\ handleExport(path, o)
  \/ \E i \in intervals : pollProgress(i)
  \/ \E c \in pending : exportReply(c)
  \/ CancelRoom /\ cancelClick
  \/ cancelReply
  \/ handleDismiss
  \/ \E c \in 1..Len(calls), code \in {0, 1} : procClose(c, code)
  \/ \E c \in 1..Len(calls) : procError(c)

SpecRender == Init /\ [][NextRender]_vars

\* the export of a rearranged timeline: a project is opened, clips are added
\* and dragged, and the timeline is exported
NextPlan ==
  \/ \E d \in ProjectInputs : loadProjectData(d)
  \/ \E f \in Files : HistRoom /\ ClipRoom /\ addVideoToTimeline(f)
  \/ \E id \in ClipIds(clips), t \in 0..MaxTime : HistRoom /\ updateClip(id, [startTime |-> t])
  \/ \E path \in {"", "out"}, o \in SpawnOutcomes : ExportRoom /\ handleExport(path, o)
  \/ \E c \in pending : exportReply(c)
  \/ \E c \in 1..Len(calls), code \in {0, 1} : procClose(c, code)
  \/ \E c \in 1..Len(calls) : procError(c)

SpecPlan == Init /\ [][NextPlan]_vars

\* the documented range of the constant rate factor
CrfDomain == 0..51

\* export settings: the ends of that range, its least nonzero value and the
\* default, with the containers and codecs that decide whether a CRF is emitted
CrfInputs ==
  {[crf |-> v] : v \in {0, 1, 23, 51}}
    \cup {[format |-> f] : f \in {"mp4", "webm", "gif"}}
    \cup {[codec |-> k] : k \in {"h264", "prores"}}

\* a project is opened, the encoder settings are chosen and exports are made
NextCrf ==
  \/ \E d \in ProjectInputs : loadProjectData(d)
  \/ \E u \in CrfInputs : setExportSettings(u)
  \/ \E path \in {"", "out"}, o \in SpawnOutcomes : ExportRoom /\ handleExport(path, o)
  \/ \E c \in pending : exportReply(c)
  \/ \E c \in 1..Len(calls), code \in {0, 1} : procClose(c, code)
  \/ \E c \in 1..Len(calls) : procError(c)

SpecCrf == Init /\ [][NextCrf]_vars

\* the timeline is edited and replaced: a video is opened, a project is loaded
\* or the store is reset, between edits, undos and redos
NextReplace ==
  \/ \E f \in Files : setVideoFile(f)
  \/ \E d \in ProjectInputs : loadProjectData(d)
  \/ reset
  \/ \E u \in CropInputs : HistRoom /\ setCrop(u)
  \/ \E f \in Files : HistRoom /\ ClipRoom /\ addVideoToTimeline(f)
  \/ undo
  \/ redo

SpecReplace == Init /\ [][NextReplace]_vars

\* the timelines that addVideoToTimeline, updateClip, splitClipAtPlayhead and
\* rippleDelete build from an opened one-clip project.  A project load is the
\* only operation here that empties the history, and it replaces the whole
\* timeline, so no clip id is released while another clip lives: generateClipId
\* numbers the clips of a timeline in the order of their insertion.
PlanRoom == Len(clips) < MaxPlanClips

NextOrder ==
  \/ \E d \in ProjectInputs : loadProjectData(d)
  \/ \E t \in 1..MaxTime : setPlayheadTime(t)
  \/ \E f \in Files : EditRoom /\ PlanRoom /\ addVideoToTimeline(f)
  \/ \E id \in ClipIds(clips), t \in 0..MaxTime : EditRoom /\ updateClip(id, [startTime |-> t])
  \/ \E id \in ClipIds(clips) : EditRoom /\ PlanRoom /\ splitClipAtPlayhead(id)
  \/ \E id \in ClipIds(clips) : EditRoom /\ rippleDelete(id)

SpecOrder == Init /\ [][NextOrder]_vars

\* ---------------------------------------------------------------- undo / redo claims
\* the history-pushing edits: every pushing operation but a bare pushHistory()
IsEdit(op) == op.pushed /\ op.name # "pushHistory"

\* C2: after a single history-pushing edit, one undo() succeeds and restores
\* clips and crop to the values they had immediately before that edit.
C2_UndoRestoresPreEdit ==
  (lastOp.name = "undo" /\ lastOp.afterEdit) =>
    (lastOp.ok /\ clips = lastOp.before.clips /\ crop = lastOp.before.crop)

\* C3: N >= 1 edits from an empty history followed by N calls of undo() leave
\* clips equal to the clips before the first edit.
C3_UndoRoundTrip ==
  (mon.phase = "undos" /\ mon.u = mon.n) => clips = mon.base

\* C4: N edits, N calls of undo(), then N calls of redo() leave clips equal to
\* the clips after the last edit.
C4_RedoRoundTrip ==
  (mon.phase = "redos" /\ mon.r = mon.n) => clips = mon.post

\* C5: a history-pushing edit made after an undo discards the redo branch: right
\* after it canRedo() is false and historyIndex = history.length - 1, and a
\* redo() called next returns false and changes nothing.
C5_AfterEdit ==
  IsEdit(lastOp) => (~canRedo /\ historyIndex = Len(history) - 1)

C5_RedoStep ==
  (IsEdit(lastOp) /\ lastOp'.name = "redo") =>
    (~lastOp'.ok /\ UNCHANGED storeVars)

C5_PushDiscardsRedo == [](C5_AfterEdit) /\ [][C5_RedoStep]_vars

\* an edit has just been made while a redo branch existed
C5_Witness == IsEdit(lastOp) /\ lastOp.hadRedo

\* ---------------------------------------------------------------- clip claims
ClipValid(c) ==
  /\ 0 <= c.inPoint
  /\ c.inPoint < c.outPoint
  /\ c.outPoint <= c.sourceFile.duration
  /\ c.startTime >= 0

AllValid(cs) == \A i \in 1..Len(cs) : ClipValid(cs[i])

\* the clip of cs that carries id
ClipOf(cs, id) == cs[FindIndex(cs, id)]

\* C7: under sequences of addClip, removeClip and updateClip every clip of the
\* store satisfies 0 <= inPoint < outPoint <= sourceFile.duration, startTime >= 0.
C7_ClipsValid == AllValid(clips)

\* C8: rippleDelete and splitClipAtPlayhead preserve the clip invariant, also
\* when clips overlap on the timeline.
C8_RippleSplitPreserveValid ==
  (lastOp.name \in {"rippleDelete", "splitClipAtPlayhead"} /\ lastOp.ok
     /\ AllValid(lastOp.before.clips))
    => AllValid(clips)

\* C9: rippleDelete(id) of a present id removes exactly that clip, moves every
\* remaining clip that started strictly after it left by the deleted clip's
\* duration, and leaves every other clip unchanged.
C9_RippleDeleteEffect ==
  (lastOp.name = "rippleDelete" /\ lastOp.ok) =>
    LET pre == lastOp.before.clips
        del == ClipOf(pre, lastOp.id)
    IN  /\ Len(clips) = Len(pre) - 1
        /\ ClipIds(clips) = ClipIds(pre) \ {lastOp.id}
        /\ \A c \in Range(pre) :
             c.id # lastOp.id =>
               IF c.startTime > del.startTime
               THEN [c EXCEPT !.startTime = c.startTime - (del.outPoint - del.inPoint)]
                      \in Range(clips)
               ELSE c \in Range(clips)

\* a ripple delete that moved a clip
C9_Witness ==
  /\ lastOp.name = "rippleDelete"
  /\ lastOp.ok
  /\ \E c \in Range(lastOp.before.clips) :
       /\ c.id # lastOp.id
       /\ c.startTime > ClipOf(lastOp.before.clips, lastOp.id).startTime
       /\ c \notin Range(clips)

C6_IndexInRange ==
  /\ -1 <= historyIndex
  /\ historyIndex <= Len(history) - 1
  /\ Len(history) <= HistoryCap

C6_PushAtCap ==
  (lastOp'.pushed /\ historyIndex = HistoryCap - 1) =>
    /\ Len(history') = HistoryCap
    /\ \A i \in 1..(HistoryCap - 1) : history'[i] = history[i + 1]
    /\ history'[HistoryCap].clips = clips /\ history'[HistoryCap].crop = crop

C6_HistoryBounded == [](C6_IndexInRange) /\ [][C6_PushAtCap]_vars

\* a push has just dropped the oldest entry of a full history
C6_Witness == lastOp.dropped /\ Len(history) = HistoryCap

\* ---------------------------------------------------------------- timeline claims
\* the playhead is at or outside the span of clip c
OutsideSpan(c, ph) == ph <= c.startTime \/ ph >= c.startTime + (c.outPoint - c.inPoint)

\* C11: splitClipAtPlayhead of a present clip with the playhead at or outside the
\* clip's span changes no clip and pushes no history entry.
C11_Step ==
  (/\ lastOp'.name = "splitClipAtPlayhead"
   /\ \E c \in Range(clips) : c.id = lastOp'.id /\ OutsideSpan(c, playheadTime))
    => (clips' = clips /\ history' = history /\ historyIndex' = historyIndex)

C11_SplitOutsideNoOp == [][C11_Step]_vars

\* a split was asked for a present clip with the playhead on the edge of its span
C11_Witness ==
  /\ lastOp.name = "splitClipAtPlayhead"
  /\ ~lastOp.ok
  /\ \E c \in Range(clips) :
       /\ c.id = lastOp.id
       /\ (playheadTime = c.startTime
             \/ playheadTime = c.startTime + (c.outPoint - c.inPoint))

\* the largest timeline end over the clips of cs, 0 when there is none
MaxEndOver(cs) ==
  IF cs = <<>> THEN 0
  ELSE CHOOSE m \in {ClipEnd(c) : c \in Range(cs)} :
         \A c \in Range(cs) : ClipEnd(c) <= m

\* C12: addVideoToTimeline(file) appends exactly one clip covering the whole file,
\* placed at the largest timeline end of the existing clips (0 on an empty
\* timeline), and changes no existing clip.
C12_AddVideoPlacement ==
  (lastOp.name = "addVideoToTimeline") =>
    LET pre == lastOp.before.clips
        new == clips[Len(clips)]
    IN  /\ lastOp.ok
        /\ Len(clips) = Len(pre) + 1
        /\ SubSeq(clips, 1, Len(pre)) = pre
        /\ new.inPoint = 0
        /\ new.outPoint = new.sourceFile.duration
        /\ new.startTime = MaxEndOver(pre)

\* C13: updateClip, removeClip, rippleDelete and splitClipAtPlayhead called with
\* an id that no clip of the store carries leave clips, crop, exportSettings,
\* history and historyIndex as they were.
C13_Step ==
  (/\ lastOp'.name \in {"updateClip", "removeClip", "rippleDelete", "splitClipAtPlayhead"}
   /\ lastOp' # lastOp
   /\ lastOp'.id \notin ClipIds(clips))
    => UNCHANGED <<clips, crop, exportSettings, history, historyIndex>>

C13_StaleIdNoOp == [][C13_Step]_vars

\* C14: after every store operation the stored clips are in ascending order of
\* startTime.
C14_ClipsSorted ==
  \A i, j \in 1..Len(clips) : i < j => clips[i].startTime <= clips[j].startTime

\* ---------------------------------------------------------------- export claims
\* the last store-side operation was an export request that went to the adapter;
\* while this holds the store is as it was when the request was made
ExportMade == lastOp.name = "handleExport" /\ lastOp.ok

\* the submission of that request
ExportCall == calls[lastOp.id]

\* the request got as far as spawning the engine
Launched(c) == c.pc \notin {"busy", "empty"}

HasArg(args, a) == \E k \in 1..Len(args) : args[k] = a

CountArg(args, a) == Cardinality({k \in 1..Len(args) : args[k] = a})

\* the inputs of the command: the k-th "-ss <in> -t <duration> -i <path>" group
PlanSize(args) == CountArg(args, "-i")

PlanIn(args, k) == args[6 * k - 3]

PlanDuration(args, k) == args[6 * k - 1]

PlanPath(args, k) == args[6 * k + 1]

\* the one-to-one assignments of plan positions to stored clips
Orderings(n) == {p \in [1..n -> 1..n] : \A i, j \in 1..n : p[i] = p[j] => i = j}

\* the k-th input of the command is the stored clip c
PlanCarries(args, k, c) ==
  /\ PlanIn(args, k) = ToString(c.inPoint)
  /\ PlanDuration(args, k) = ToString(c.outPoint - c.inPoint)
  /\ PlanPath(args, k) = c.sourceFile.path

\* C15: an export request on an empty clip list, made while no job is running,
\* fails with the empty-timeline error and spawns nothing: currentProcess stays
\* null, totalDuration and currentProgress are not modified.
C15_Step ==
  (/\ lastOp'.name = "handleExport"
   /\ lastOp'.ok
   /\ lastOp' # lastOp
   /\ clips = <<>>
   /\ currentProcess = 0)
    => (/\ Len(calls') = Len(calls) + 1
        /\ calls'[Len(calls')].pc = "empty"
        /\ AliveCalls' = AliveCalls
        /\ UNCHANGED <<currentProcess, totalDuration, currentProgress>>)

C15_EmptyExportFails == [][C15_Step]_vars

\* an export of an emptied timeline was requested and rejected
C15_Witness ==
  /\ ExportMade
  /\ clips = <<>>
  /\ ExportCall.pc = "empty"
  /\ currentProcess = 0

\* C16: the export plan of a non-empty clip list has one segment per clip, with
\* that clip's source path, inPoint and outPoint, in ascending order of the
\* clips' startTime, whatever the stored order.
C16_PlanSortedByStart ==
  (ExportMade /\ Launched(ExportCall) /\ clips # <<>>) =>
    LET args == ExportCall.args
        n == Len(clips)
    IN  /\ PlanSize(args) = n
        /\ \E p \in Orderings(n) :
             /\ \A k \in 1..n : PlanCarries(args, k, clips[p[k]])
             /\ \A i, j \in 1..n :
                  i < j => clips[p[i]].startTime <= clips[p[j]].startTime

\* a timeline stored out of order has been exported
C16_Witness ==
  /\ ExportMade
  /\ Launched(ExportCall)
  /\ \E i, j \in 1..Len(clips) : i < j /\ clips[i].startTime > clips[j].startTime

\* C17: clips with identical startTime appear in the export plan in the order in
\* which they were inserted into the store (the order of their ids, see
\* NextOrder).
C17_TieBreakByInsertion ==
  LET plan == ExportClips(clips)
      n == Len(clips)
  IN  /\ Len(plan) = n
      /\ \E p \in Orderings(n) :
           /\ \A k \in 1..n :
                /\ plan[k].sourcePath = clips[p[k]].sourceFile.path
                /\ plan[k].inPoint = clips[p[k]].inPoint
                /\ plan[k].outPoint = clips[p[k]].outPoint
           /\ \A i, j \in 1..n :
                i < j =>
                  \/ clips[p[i]].startTime < clips[p[j]].startTime
                  \/ /\ clips[p[i]].startTime = clips[p[j]].startTime
                     /\ clips[p[i]].id < clips[p[j]].id

\* the command sets a video bitrate other than the "-b:v 0" of constant quality
ExplicitBitrate(args) ==
  \E k \in 1..(Len(args) - 1) : args[k] = "-b:v" /\ args[k + 1] # "0"

\* C18: the engine command never carries both an explicit video bitrate and a
\* CRF: with bitrate 'auto' it has no bitrate parameter, with an explicit bitrate
\* no CRF.
C18_BitrateCrfExclusive ==
  (ExportMade /\ Launched(ExportCall)) =>
    LET args == ExportCall.args
    IN  /\ ~(ExplicitBitrate(args) /\ HasArg(args, "-crf"))
        /\ exportSettings.bitrate = "auto" => ~ExplicitBitrate(args)
        /\ exportSettings.bitrate # "auto" => ~HasArg(args, "-crf")

\* the crop region lies within a source of the given size
CropRegionValid(cr, source) ==
  /\ 0 <= cr.x
  /\ 0 <= cr.y
  /\ cr.x + cr.width <= source.width
  /\ cr.y + cr.height <= source.height
  /\ cr.width >= 1
  /\ cr.height >= 1

\* the source of the first clip of the plan
FirstSource(cs) ==
  LET first == CHOOSE k \in 1..Len(cs) :
                 \A j \in 1..Len(cs) :
                   cs[k].startTime < cs[j].startTime
                     \/ (cs[k].startTime = cs[j].startTime /\ k <= j)
  IN  cs[first].sourceFile

\* C19: an export request with crop enabled and a crop region outside the first
\* clip's source fails before any engine process is spawned.
C19_InvalidCropRejected ==
  (/\ ExportMade
   /\ clips # <<>>
   /\ crop.enabled
   /\ ~CropRegionValid(crop, FirstSource(clips)))
    => ~Launched(ExportCall)

\* the concat graphs that end in an audio output pad [outa], for n inputs
AudioGraphs(n) ==
  LET labels == Join([i \in 1..n |->
                        "[" \o ToString(i - 1) \o ":v][" \o ToString(i - 1) \o ":a]"])
      concat == labels \o "concat=n=" \o ToString(n) \o ":v=1:a=1"
  IN  {concat \o "[outv][outa]"}
        \cup {concat \o "[concatv][outa];[concatv]crop=" \o ToString(w) \o ":"
                \o ToString(h) \o ":" \o ToString(x) \o ":" \o ToString(y) \o "[outv]" :
              w \in 0..MaxTime, h \in 0..MaxTime, x \in {0}, y \in {0}}

\* the filter graph of the command: the argument after -filter_complex
FilterArg(args) == args[1 + CHOOSE k \in 1..Len(args) : args[k] = "-filter_complex"]

\* C20: for gif the engine command has no audio at all (no audio stream mapped,
\* no audio output of the filter graph, no audio codec); for every other format
\* it has exactly one audio mapping and an audio codec.
C20_AudioByFormat ==
  (ExportMade /\ Launched(ExportCall)) =>
    LET args == ExportCall.args
    IN  IF exportSettings.format = "gif"
        THEN /\ ~HasArg(args, "[outa]")
             /\ ~HasArg(args, "-c:a")
             /\ FilterArg(args) \notin AudioGraphs(PlanSize(args))
        ELSE /\ CountArg(args, "[outa]") = 1
             /\ HasArg(args, "-c:a")

\* ---------------------------------------------------------------- history coverage claims
\* the user-visible mutations of the store
Mutations ==
  {"addClip", "addVideoToTimeline", "updateClip", "removeClip", "splitClipAtPlayhead",
   "rippleDelete", "setCrop", "setExportSettings", "setOutputFormat"}

\* a mutation has just been carried out
Mutates == lastOp' # lastOp /\ lastOp'.name \in Mutations /\ lastOp'.ok

\* C26: every user-visible mutation, setExportSettings and setOutputFormat
\* included, appends to the history one snapshot equal to the state immediately
\* before the mutation.
C26_Step ==
  Mutates =>
    /\ Len(history') = Len(SubSeq(history, 1, historyIndex + 1)) + 1
    /\ history'[Len(history')] = Snapshot(clips, crop, exportSettings, playheadTime)
    /\ historyIndex' = Len(history') - 1

C26_EveryMutationPushes == [][C26_Step]_vars

\* the operations that replace the timeline
Replacers == {"setVideoFile", "reset", "loadProjectData"}

\* C28: immediately after setVideoFile, reset or loadProjectData, undo() and
\* redo() both fail, so that no clip of the replaced timeline comes back.
C28_Step ==
  (lastOp.name \in Replacers /\ lastOp'.name \in {"undo", "redo"}) =>
    (~lastOp'.ok /\ UNCHANGED clips)

C28_NoUndoAcrossReplace == [][C28_Step]_vars

\* ---------------------------------------------------------------- encoder claims
\* C30: for every CRF of the documented range and every format / codec for
\* which a CRF is emitted, the CRF in the command built by exportTimeline equals
\* exportSettings.crf.
C30_CrfCarried ==
  (ExportMade /\ Launched(ExportCall) /\ exportSettings.crf \in CrfDomain) =>
    \A k \in 1..(Len(ExportCall.args) - 1) :
      ExportCall.args[k] = "-crf" =>
        ExportCall.args[k + 1] = ToString(exportSettings.crf)

\* ---------------------------------------------------------------- job control claims
\* a step that makes a submission: one more call is on record
Submits == Len(calls') = Len(calls) + 1

\* C21: a submission made while a job is running is rejected with the
\* job-already-running error, spawns no process and leaves currentProcess,
\* currentProgress and totalDuration as they were.
C21_Step ==
  (Submits /\ currentProcess # 0) =>
    /\ calls'[Len(calls')].pc = "busy"
    /\ AliveCalls' = AliveCalls
    /\ SubSeq(calls', 1, Len(calls)) = calls
    /\ UNCHANGED <<currentProcess, currentProgress, totalDuration>>

C21_BusyRejected == [][C21_Step]_vars

C21_Witness ==
  /\ lastJob.result = "busy"
  /\ currentProcess # 0
  /\ currentProcess \in AliveCalls
  /\ currentProgress > 0

\* a cancelCurrentJob() has just returned
Cancels == lastJob'.name = "cancel" /\ lastJob' # lastJob

RunningCalls == {i \in 1..Len(calls) : calls[i].pc = "running"}

\* C22: cancelCurrentJob() returns true exactly when an engine process started
\* by a submission is still running, that process being the one it signals,
\* and false exactly when none is running; afterwards no job is running.
\* (Stated for calls made while no failed spawn awaits its 'error' event.)
C22_Step ==
  (Cancels /\ \A i \in 1..Len(calls) : calls[i].pc # "spawnErr") =>
    /\ (lastJob'.result = "true") <=> (RunningCalls # {})
    /\ (lastJob'.result = "true") =>
         (lastJob'.call \in RunningCalls /\ calls'[lastJob'.call].pc = "killed")
    /\ currentProcess' = 0

C22_CancelReturn == [][C22_Step]_vars

\* a call whose process has ended or has been cancelled
Finished(c) == c.pc \in {"killed", "resolved", "rejected"}

\* C23: every started job eventually reaches a state in which currentProcess no
\* longer points at it, and no exit path (close with code 0, close with a
\* nonzero code, spawn error, cancellation) leaves currentProcess pointing at
\* the finished job.
C23_FlagCleared ==
  /\ \A c \in 1..MaxCalls : (currentProcess = c) ~> (currentProcess # c)
  /\ [](\A c \in 1..Len(calls) : Finished(calls[c]) => currentProcess # c)

C23_Witness ==
  /\ currentProcess = 0
  /\ lastJob.name \in {"close", "error"}
  /\ lastJob.result = "rejected"
  /\ \E c \in 1..Len(calls) : calls[c].pc = "killed"

\* C24: while one job stays the current one, the successive values of
\* getProgress() never decrease and stay within 0..100.
C24_Step ==
  (currentProcess # 0 /\ currentProcess' = currentProcess) =>
    (currentProgress' >= currentProgress /\ currentProgress' \in 0..100)

C24_ProgressMonotone == [][C24_Step]_vars

\* ---------------------------------------------------------------- render claims
\* a step of the export flow: an export is requested, answered, polled,
\* cancelled or dismissed, or the engine process of one ends
RenderStep ==
  \/ uiVars' # uiVars
  \/ jobVars' # jobVars
  \/ (lastOp' # lastOp /\ lastOp'.name = "handleExport")

\* C25: starting an export, its success, its failure and its cancellation
\* leave clips, crop, exportSettings, history and historyIndex unchanged.
C25_Step ==
  RenderStep => UNCHANGED <<clips, crop, exportSettings, history, historyIndex>>

C25_ExportKeepsEdits == [][C25_Step]_vars

C25_Witness ==
  /\ processingStatus = "cancelled"
  /\ \E c \in 1..Len(calls) : calls[c].pc = "rejected"
  /\ \E c \in 1..Len(calls) : calls[c].pc = "resolved"
  /\ history # <<>>
  /\ crop.enabled

\* C27: once a cancelled export shows 'cancelled', the status stays 'cancelled'
\* until the user dismisses it or starts a new export, whichever of the cancel
\* reply and the rejected export result arrives first.  (An export whose
\* process still exited with code 0 is left aside.)
C27_Step ==
  (processingStatus = "cancelled" /\ processingStatus' # "cancelled") =>
    processingStatus' \in {"idle", "processing", "completed"}

C27_CancelledIsTerminal == [][C27_Step]_vars

\* C29: whenever no handleExport call is in flight no polling interval is
\* active, and a completing handleExport call clears no interval but its own.
C29_Step == \A c \in pending \ pending' : intervals \ intervals' \subseteq {c}

C29_IntervalsCleared ==
  /\ [](pending = {} => intervals = {})
  /\ [][C29_Step]_vars

\* ---------------------------------------------------------------- adapter claims
\* C1: in every interleaving of submissions, cancelCurrentJob calls and process
\* close / error events, at most one engine process started by the adapter is
\* alive.
C1_AtMostOneProcess == Cardinality(AliveCalls) <= 1

====
